---- MODULE Spec2Model ----
(***************************************************************************)
(* A model of the well-record extraction pipeline of src/extractor.py:     *)
(* pick_scanned_pages, parse_form_page_text, parse_stimulation_text,       *)
(* ocr_pages_batch, extract_from_pdf, upsert_to_db and main.               *)
(*                                                                         *)
(* Each operation has its own specification (SpecPick, SpecStim, ...).     *)
(* The variables of the operations a specification does not exercise stay  *)
(* at their idle values.                                                   *)
(***************************************************************************)
EXTENDS Integers, Sequences, FiniteSets, TLC

VARIABLES
    pickIn,      \* pick_scanned_pages: the argument low_text_pages
    pickFirst,   \* pick_scanned_pages: the argument first
    pickLast,    \* pick_scanned_pages: the argument last
    pickStep,    \* pick_scanned_pages: the argument step
    pickOut,     \* pick_scanned_pages: the returned list
    pickPc,      \* "idle" | "call" | "done"
    stimTxt,     \* parse_stimulation_text: the argument txt, as its list of lines
    stimOut,     \* parse_stimulation_text: the returned list of records
    stimPc,      \* "idle" | "call" | "done"
    pdfOcr,      \* the PDF: page index -> the text OCR recognizes on that page
    ocrReq,      \* ocr_pages_batch: the argument page_indices
    ocrChunks,   \* ocr_pages_batch: chunks, the list of (a, b) runs
    ocrNext,     \* ocr_pages_batch: position in chunks of the next run
    ocrCalls,    \* the (first_page, last_page) of each convert_from_path call made
    ocrFull,     \* every call so far returned one image per page
    ocrOut,      \* ocr_pages_batch: out, page index -> text
    ocrPc,       \* "idle" | "call" | "loop" | "done" | "raised"
    pdfPages,    \* the PDF: the text-layer text of each page, in page order
    well,        \* extract_from_pdf: the accumulator well, key -> optional value
    stim_blocks, \* extract_from_pdf: the list of stimulation records
    low_text_pages,     \* extract_from_pdf: indices of pages with little text
    likely_well_pages,  \* extract_from_pdf: indices of pages with a well keyword
    likely_stim_pages,  \* extract_from_pdf: indices of pages with a stim keyword
    exI,         \* extract_from_pdf: index of the next page of the text-layer loop
    pages_to_ocr,\* extract_from_pdf: the set of page indices sent to OCR
    exKeys,      \* extract_from_pdf: the keys of ocr_map still to merge, ascending
    exLog,       \* history: the (pass, page) pairs merged so far, in order
    exText,      \* history: (well, stim_blocks) at the end of the text-layer pass
    exPc,        \* "idle" | "text" | "select" | "ocr" | "merge" | "done" | "raised"
    exErr,       \* what raised: "none" | "text" | "ocr"
    mainDocs,    \* main: what extract_from_pdf returns for each file of pdfs
    mainI,       \* main: position in pdfs of the current file
    mainCur,     \* main: (well, stims) of the current file, once extracted
    dbWells,     \* the committed rows of table wells
    dbStims,     \* the committed rows of table stimulations, in insertion order
    session,     \* the rows added by the session in the open transaction:
                 \* [wells: a set of rows, stims: a list of rows]
    mainOutcome, \* history: for each file processed so far, "ok" or what raised
    mainPc,      \* "idle" | "extract" | "upsert" | "commit" | "done"
    formLines,   \* value_after_label: the argument lines
    formLabel,   \* value_after_label: the argument label
    formOut,     \* value_after_label: the value returned, <<>> for None
    formPc       \* "idle" | "call" | "done"

pickVars == <<pickIn, pickFirst, pickLast, pickStep, pickOut, pickPc>>
stimVars == <<stimTxt, stimOut, stimPc>>

ocrVars == <<pdfOcr, ocrReq, ocrChunks, ocrNext, ocrCalls, ocrFull, ocrOut, ocrPc>>

exVars == <<pdfPages, well, stim_blocks, low_text_pages, likely_well_pages,
            likely_stim_pages, exI, pages_to_ocr, exKeys, exLog, exText, exPc, exErr>>

mainVars == <<mainDocs, mainI, mainCur, dbWells, dbStims, session,
              mainOutcome, mainPc>>

formVars == <<formLines, formLabel, formOut, formPc>>

vars == <<pickVars, stimVars, ocrVars, exVars, mainVars, formVars>>

(***************************************************************************)
(* Python list primitives                                                  *)
(***************************************************************************)
Min(a, b) == IF a <= b THEN a ELSE b
Max(a, b) == IF a >= b THEN a ELSE b

Range(s) == {s[i] : i \in DOMAIN s}

\* s[a:b] for 0 <= a, 0 <= b (0-based, end exclusive, clipped to the list)
Slice(s, a, b) ==
    LET lo == Min(a, Len(s))
        hi == Min(b, Len(s))
    IN  IF hi <= lo THEN <<>> ELSE [i \in 1..(hi - lo) |-> s[lo + i]]

\* s[-k:] for k >= 0.  Python reads -0 as 0, so s[-0:] is the whole list.
LastSlice(s, k) ==
    IF k = 0 THEN s ELSE Slice(s, Max(0, Len(s) - k), Len(s))

\* s[::step] for step >= 1
EveryNth(s, step) ==
    [i \in 1..((Len(s) + step - 1) \div step) |-> s[(i - 1) * step + 1]]

\* sorted(s) for a list of integers: the element of rank k goes to position k
\* (ties keep their order, as Python's stable sort does).
Sorted(s) ==
    LET rank(i) == Cardinality({j \in DOMAIN s :
                                   s[j] < s[i] \/ (s[j] = s[i] /\ j < i)})
    IN  [k \in 1..Len(s) |-> s[CHOOSE i \in DOMAIN s : rank(i) = k - 1]]

\* sorted(S) for a set of integers
SetToSorted(S) ==
    [k \in 1..Cardinality(S) |->
        CHOOSE x \in S : Cardinality({y \in S : y < x}) = k - 1]

IsSorted(s) == \A i \in 1..(Len(s) - 1) : s[i] <= s[i + 1]
NoDup(s) == \A i, j \in DOMAIN s : i # j => s[i] # s[j]

(***************************************************************************)
(* pick_scanned_pages                                                      *)
(***************************************************************************)
MaxPickPage == 5     \* low-text page indices are drawn from 0..MaxPickPage
MaxPickParam == 2    \* first and last are drawn from 0..MaxPickParam
MaxPickStep == 2     \* step is drawn from 1..MaxPickStep

\* The mid slice of pick_scanned_pages keeps every page: mid[::1].
pick_scanned_pages_AllMid(lowPages, first, last, step) ==
    IF lowPages = <<>> THEN <<>>
    ELSE LET low == Sorted(lowPages)
             mid == Slice(low, first, Max(first, Len(low) - last))
         IN  SetToSorted(Range(Slice(low, 0, first)) \cup Range(LastSlice(low, last))
                         \cup Range(mid))

pick_scanned_pages(lowPages, first, last, step) ==
    IF lowPages = <<>> THEN <<>>
    ELSE LET low == Sorted(lowPages)
             mid == Slice(low, first, Max(first, Len(low) - last))
             sampled_mid == EveryNth(mid, step)
         IN  SetToSorted(Range(Slice(low, 0, first)) \cup Range(LastSlice(low, last))
                         \cup Range(sampled_mid))

Reverse(s) == [i \in 1..Len(s) |-> s[Len(s) + 1 - i]]

\* Lists of distinct page indices: every subset of 0..MaxPickPage, ascending
\* (as extract_from_pdf builds low_text_pages) and descending.
PickInputs ==
    {SetToSorted(S) : S \in SUBSET (0..MaxPickPage)}
    \cup {Reverse(SetToSorted(S)) : S \in SUBSET (0..MaxPickPage)}

\* The call extract_from_pdf makes on a long scanned document:
\* 200 low-text pages, first=25, last=25, step=15.
PickInitLong ==
    /\ pickIn = [i \in 1..200 |-> i - 1]
    /\ pickFirst = 25
    /\ pickLast = 25
    /\ pickStep = 15

PickInit ==
    /\ \/ /\ pickIn \in PickInputs
          /\ pickFirst \in 0..MaxPickParam
          /\ pickLast \in 0..MaxPickParam
          /\ pickStep \in 1..MaxPickStep
       \/ PickInitLong
    /\ pickOut = <<>>
    /\ pickPc = "call"

PickIdle ==
    /\ pickIn = <<>>
    /\ pickFirst = 0
    /\ pickLast = 0
    /\ pickStep = 1
    /\ pickOut = <<>>
    /\ pickPc = "idle"

PickCall ==
    /\ pickPc = "call"
    /\ pickOut' = pick_scanned_pages(pickIn, pickFirst, pickLast, pickStep)
    /\ pickPc' = "done"
    /\ UNCHANGED <<pickIn, pickFirst, pickLast, pickStep>>

(***************************************************************************)
(* parse_stimulation_text                                                  *)
(*                                                                         *)
(* A text is a list of lines drawn from StimLines.  What each regular      *)
(* expression of the function finds in a line is tabulated per line; a     *)
(* match that runs over a line break (\s* also matches "\n") is tabulated  *)
(* per pair of adjacent lines.  A float is written as an integer           *)
(* (185000.0 as 185000, 6.0 as 6).  An optional value is <<>> (None) or    *)
(* <<v>>.                                                                  *)
(***************************************************************************)
MaxStimLines == 3    \* a text has at most MaxStimLines lines

HeaderLine ==
    "Date Stimulated Stimulated Formation Top (Ft) Bottom (Ft) Stimulation Stages Volume Volume Units"
RowLine1 == "03/14/2019 Bakken 10450 10620 12 45,000 bbls"
RowLine2 == "04/02/2020 Three Forks 10800 11000 20 60,000 bbls"
TreatLine4 == "Slickwater 6.0 185000 9200 62.0"
TreatLine3 == "Sand Frac 120000 8500 40.0"
TreatLine2 == "Gel 90000 7000"

StimLines ==
    { "Date Stimulated 03/14/2019", "Stimulated Formation Bakken",
      "Stimulation Stages 12", "Stimulation Stages 0", "Lbs Proppant 185000",
      "Maximum Treatment Pressure (PSI) 9200", "Volume 45,000",
      "Type Treatment Sand Frac", "100 Mesh White: 250000", HeaderLine,
      RowLine1, RowLine2, TreatLine4, TreatLine3, TreatLine2, "Operator" }

\* SIGNAL_PATTERNS, by position in the list:
\*  1 \bdate\s*stim            2 \bstimulation\s*stages?\b   3 \bvolume\b
\*  4 \bvolume\s*units?\b      5 \b(proppant|lbs\s*proppant|ilbs\s*proppant)\b
\*  6 \bmax(?:imum)?\s*treatment\s*pressure\b
\*  7 \bmax(?:imum)?\s*treatment\s*rate\b
\*  8 \b(a[cg]id|rcid)\s*%?\b  9 \bmesh\b
SIGNAL_PATTERNS == 1..9

\* The patterns p with re.search(p, line, re.I)
LineSignals(l) ==
    CASE l = "Date Stimulated 03/14/2019" -> {1}
      [] l \in {"Stimulation Stages 12", "Stimulation Stages 0"} -> {2}
      [] l = "Volume 45,000" -> {3}
      [] l = "Lbs Proppant 185000" -> {5}
      [] l = "Maximum Treatment Pressure (PSI) 9200" -> {6}
      [] l = "100 Mesh White: 250000" -> {9}
      [] l = HeaderLine -> {1, 2, 3, 4}
      [] OTHER -> {}

\* The leading run of letters of a line ([A-Za-z]+ anchored at its start)
FirstWord(l) ==
    CASE l \in {"Date Stimulated 03/14/2019", HeaderLine} -> <<"Date">>
      [] l = "Stimulated Formation Bakken" -> <<"Stimulated">>
      [] l \in {"Stimulation Stages 12", "Stimulation Stages 0"} -> <<"Stimulation">>
      [] l = "Lbs Proppant 185000" -> <<"Lbs">>
      [] l = "Maximum Treatment Pressure (PSI) 9200" -> <<"Maximum">>
      [] l = "Volume 45,000" -> <<"Volume">>
      [] l = "Type Treatment Sand Frac" -> <<"Type">>
      [] l = TreatLine4 -> <<"Slickwater">>
      [] l = TreatLine3 -> <<"Sand">>
      [] l = TreatLine2 -> <<"Gel">>
      [] l = "Operator" -> <<"Operator">>
      [] OTHER -> <<>>

\* clean(m.group(1)) of the leftmost match of field f's pattern that starts in
\* line l, nx being the line after l (<<>> at the end of the text).
RawField(f, l, nx) ==
    CASE f = "date_stimulated" /\ l = "Date Stimulated 03/14/2019" -> <<"03/14/2019">>
      [] f = "formation" /\ l = "Stimulated Formation Bakken" -> <<"Bakken">>
      [] f = "formation" /\ l = HeaderLine -> <<"Top">>
      [] f = "stages" /\ l = "Stimulation Stages 12" -> <<"12">>
      [] f = "stages" /\ l = "Stimulation Stages 0" -> <<"0">>
      [] f = "volume" /\ l = "Volume 45,000" -> <<"45,000">>
      [] f = "volume_units" /\ l = HeaderLine ->
            \* "Volume Units" ends the line: Units?\s*([A-Za-z]+) takes the next
            \* line's first word, or backtracks to "Unit" + "s"
            IF nx # <<>> /\ FirstWord(nx[1]) # <<>> THEN FirstWord(nx[1]) ELSE <<"s">>
      [] f = "treatment_type" /\ l = "Type Treatment Sand Frac" -> <<"Sand Frac">>
      [] f = "lbs_proppant" /\ l = "Lbs Proppant 185000" -> <<"185000">>
      [] f = "max_pressure_psi" /\ l = "Maximum Treatment Pressure (PSI) 9200" -> <<"9200">>
      [] OTHER -> <<>>

\* The (label, amount) matches of the mesh pattern in a line
LineMesh(l) ==
    IF l = "100 Mesh White: 250000" THEN {<<"100 Mesh White", "250000">>} ELSE {}

\* float(x) / int(float(x)) of a numeral with its commas removed
NumOf(x) ==
    CASE x = "0" -> 0
      [] x = "12" -> 12
      [] x = "9200" -> 9200
      [] x = "45,000" -> 45000
      [] x = "185000" -> 185000
      [] x = "250000" -> 250000

try_float(x) == IF x = <<>> \/ x = <<"">> THEN <<>> ELSE <<NumOf(x[1])>>
try_int(x) == IF x = <<>> \/ x = <<"">> THEN <<>> ELSE <<NumOf(x[1])>>

\* _find(t, pattern): the capture of the leftmost match in the text
RECURSIVE FindFrom(_, _, _)
FindFrom(t, f, i) ==
    IF i > Len(t) THEN <<>>
    ELSE LET nx == IF i < Len(t) THEN <<t[i + 1]>> ELSE <<>>
             v == RawField(f, t[i], nx)
         IN  IF v # <<>> THEN v ELSE FindFrom(t, f, i + 1)

Find(t, f) == FindFrom(t, f, 1)

\* Python truth of an optional number / an optional string
TruthyNum(x) == x # <<>> /\ x[1] # 0
TruthyStr(x) == x # <<>> /\ x[1] # ""

\* signals: the number of SIGNAL_PATTERNS found in the text
Signals(t) ==
    Cardinality({p \in SIGNAL_PATTERNS : \E i \in DOMAIN t : p \in LineSignals(t[i])})

\* The record b of parse_stimulation_text
StimRecord(t) ==
    [ date_stimulated  |-> Find(t, "date_stimulated"),
      formation        |-> Find(t, "formation"),
      top_ft           |-> try_int(Find(t, "top_ft")),
      bottom_ft        |-> try_int(Find(t, "bottom_ft")),
      stages           |-> try_int(Find(t, "stages")),
      volume           |-> try_float(Find(t, "volume")),
      volume_units     |-> Find(t, "volume_units"),
      treatment_type   |-> Find(t, "treatment_type"),
      acid_pct         |-> try_float(Find(t, "acid_pct")),
      lbs_proppant     |-> try_float(Find(t, "lbs_proppant")),
      max_pressure_psi |-> try_float(Find(t, "max_pressure_psi")),
      max_rate_bbl_min |-> try_float(Find(t, "max_rate_bbl_min")),
      details          |-> {<<m[1], NumOf(m[2])>> :
                               m \in UNION {LineMesh(t[i]) : i \in DOMAIN t}} ]

\* strong: the strong fields of b that are true in Python
Strong(b) ==
    Cardinality({k \in {"lbs_proppant", "max_pressure_psi", "stages"} : TruthyNum(b[k])}
                \cup {k \in {"formation", "date_stimulated"} : TruthyStr(b[k])})

\* The acceptance gate reads strong >= 1.
parse_stimulation_text_WeakGate(t) ==
    IF Signals(t) < 2 THEN <<>>
    ELSE LET b == StimRecord(t) IN IF Strong(b) >= 1 THEN <<b>> ELSE <<>>

parse_stimulation_text(t) ==
    IF Signals(t) < 2 THEN <<>>
    ELSE LET b == StimRecord(t) IN IF Strong(b) >= 2 THEN <<b>> ELSE <<>>

RECURSIVE SeqsUpTo(_, _)
\* The lists over S of length at most n
SeqsUpTo(S, n) ==
    IF n = 0 THEN {<<>>}
    ELSE LET shorter == SeqsUpTo(S, n - 1)
         IN  shorter \cup {Append(s, x) : s \in shorter, x \in S}

StimInit ==
    /\ stimTxt \in SeqsUpTo(StimLines, MaxStimLines)
    /\ stimOut = <<>>
    /\ stimPc = "call"

StimIdle ==
    /\ stimTxt = <<>>
    /\ stimOut = <<>>
    /\ stimPc = "idle"

StimCall ==
    /\ stimPc = "call"
    /\ stimOut' = parse_stimulation_text(stimTxt)
    /\ stimPc' = "done"
    /\ UNCHANGED stimTxt

(***************************************************************************)
(* Strings                                                                 *)
(*                                                                         *)
(* A page text is a list of lines, each already whitespace-normal (_norm   *)
(* leaves it as it is) or blank ("").  What Python's str methods and the   *)
(* digit pattern give on the lines of the model is tabulated.              *)
(***************************************************************************)
CoordLine == "Latitude 48 01 02.5 N Longitude 103 15 30.1 W"

FormLines ==
    { "Well File No.", "NDIC File Number", "Well Name and Number", "State", "STATE",
      "County", "Operator", "Zip", "12345", "JOHNSON 1-H", "SMITH 2-H", "nd", "TX",
      "mckenzie", "Field", "" }

\* s.lower()
LowerOf(s) ==
    CASE s = "Well File No." -> "well file no."
      [] s = "Well File No" -> "well file no"
      [] s = "NDIC File Number" -> "ndic file number"
      [] s = "State File No." -> "state file no."
      [] s = "Well Name and Number" -> "well name and number"
      [] s \in {"State", "STATE"} -> "state"
      [] s = "County" -> "county"
      [] s = "Operator" -> "operator"
      [] s = "Address" -> "address"
      [] s = "City" -> "city"
      [] s = "Zip" -> "zip"
      [] s = "Zip Code" -> "zip code"
      [] s = "JOHNSON 1-H" -> "johnson 1-h"
      [] s = "SMITH 2-H" -> "smith 2-h"
      [] s = "TX" -> "tx"
      [] s = "Field" -> "field"
      [] s = CoordLine -> "latitude 48 01 02.5 n longitude 103 15 30.1 w"
      [] s = "Date Stimulated 03/14/2019" -> "date stimulated 03/14/2019"
      [] s = "Stimulated Formation Bakken" -> "stimulated formation bakken"
      [] s = "Stimulation Stages 12" -> "stimulation stages 12"
      [] s = "Stimulation Stages 0" -> "stimulation stages 0"
      [] s = "Lbs Proppant 185000" -> "lbs proppant 185000"
      [] s = "Maximum Treatment Pressure (PSI) 9200" -> "maximum treatment pressure (psi) 9200"
      [] s = "Volume 45,000" -> "volume 45,000"
      [] s = "Type Treatment Sand Frac" -> "type treatment sand frac"
      [] s = "100 Mesh White: 250000" -> "100 mesh white: 250000"
      [] s = HeaderLine ->
            "date stimulated stimulated formation top (ft) bottom (ft) stimulation stages volume volume units"
      [] s = RowLine1 -> "03/14/2019 bakken 10450 10620 12 45,000 bbls"
      [] s = RowLine2 -> "04/02/2020 three forks 10800 11000 20 60,000 bbls"
      [] s = TreatLine4 -> "slickwater 6.0 185000 9200 62.0"
      [] s = TreatLine3 -> "sand frac 120000 8500 40.0"
      [] s = TreatLine2 -> "gel 90000 7000"
      [] OTHER -> s      \* "12345", "nd", "mckenzie", "": no upper-case letter

\* len(s)
StrLen(s) ==
    CASE s = "" -> 0
      [] s \in {"nd", "TX", "ND"} -> 2
      [] s = "Zip" -> 3
      [] s \in {"State", "STATE", "12345", "Field"} -> 5
      [] s = "County" -> 6
      [] s \in {"Operator", "mckenzie", "MCKENZIE"} -> 8
      [] s = "SMITH 2-H" -> 9
      [] s = "JOHNSON 1-H" -> 11
      [] s \in {"Well File No.", "Volume 45,000"} -> 13
      [] s = TreatLine2 -> 14
      [] s = "NDIC File Number" -> 16
      [] s = "Lbs Proppant 185000" -> 19
      [] s \in {"Well Name and Number", "Stimulation Stages 0"} -> 20
      [] s = "Stimulation Stages 12" -> 21
      [] s = "100 Mesh White: 250000" -> 22
      [] s = "Type Treatment Sand Frac" -> 24
      [] s \in {"Date Stimulated 03/14/2019", TreatLine3} -> 26
      [] s = "Stimulated Formation Bakken" -> 27
      [] s = TreatLine4 -> 31
      [] s = "Maximum Treatment Pressure (PSI) 9200" -> 37
      [] s = RowLine1 -> 44
      [] s = CoordLine -> 45
      [] s = RowLine2 -> 49
      [] s = HeaderLine -> 96
      [] OTHER -> 12     \* upper-cased labels, never of length 2

\* s.strip().upper()
UpperOf(s) ==
    CASE s = "nd" -> "ND"
      [] s = "mckenzie" -> "MCKENZIE"
      [] s \in {"State", "STATE"} -> "STATE"
      [] s = "Field" -> "FIELD"
      [] s = "Zip" -> "ZIP"
      [] s = "County" -> "COUNTY"
      [] s = "Operator" -> "OPERATOR"
      [] s = "Well File No." -> "WELL FILE NO."
      [] s = "NDIC File Number" -> "NDIC FILE NUMBER"
      [] s = "Well Name and Number" -> "WELL NAME AND NUMBER"
      [] OTHER -> s      \* "TX", "12345", "JOHNSON 1-H", "SMITH 2-H"

\* s.title()
TitleOf(s) ==
    CASE s = "mckenzie" -> "Mckenzie"
      [] s = "nd" -> "Nd"
      [] s = "TX" -> "Tx"
      [] s = "STATE" -> "State"
      [] s = "JOHNSON 1-H" -> "Johnson 1-H"
      [] s = "SMITH 2-H" -> "Smith 2-H"
      [] s = "NDIC File Number" -> "Ndic File Number"
      [] s = "Well Name and Number" -> "Well Name And Number"
      [] OTHER -> s

\* re.search(r"\b(\d{3,6})\b", s).group(1), <<>> without a match
DigitRun(s) ==
    CASE s = "12345" -> <<"12345">>
      [] OTHER -> <<>>   \* no form line but "12345" holds a run of 3 to 6 digits

\* needle in haystack (Python's substring test, which tells letter case apart),
\* for the page lines, their lower-cased forms and the keywords
Substrings ==
    { <<"latitude 48 01 02.5 n longitude 103 15 30.1 w", "latitude">>,
      <<"latitude 48 01 02.5 n longitude 103 15 30.1 w", "longitude">>,
      <<"Date Stimulated 03/14/2019", "Date Stimulated">>,
      <<"Stimulated Formation Bakken", "Stimulated Formation">>,
      <<"Stimulation Stages 12", "Stimulation Stages">>,
      <<"Stimulation Stages 0", "Stimulation Stages">>,
      <<"Lbs Proppant 185000", "Lbs Proppant">>,
      <<HeaderLine, "Date Stimulated">>,
      <<HeaderLine, "Stimulated Formation">>,
      <<HeaderLine, "Stimulation Stages">>,
      <<HeaderLine, "Top (Ft)">>,
      <<HeaderLine, "Bottom (Ft)">>,
      <<HeaderLine, "Volume Units">> }

Contains(haystack, needle) == <<haystack, needle>> \in Substrings

(***************************************************************************)
(* value_after_label and parse_form_page_text                              *)
(***************************************************************************)
\* FORM_LABELS, as (key, label variants in order)
FORM_LABELS ==
    << <<"well_name", <<"Well Name and Number">> >>,
       <<"operator", <<"Operator">> >>,
       <<"address", <<"Address">> >>,
       <<"city", <<"City">> >>,
       <<"state", <<"State">> >>,
       <<"zip", <<"Zip Code", "Zip">> >>,
       <<"county", <<"County">> >>,
       <<"well_file_no",
         <<"Well File No.", "Well File No", "NDIC File Number", "State File No.">> >> >>

FormKeys == {FORM_LABELS[i][1] : i \in DOMAIN FORM_LABELS}
LabelsOf(key) == (CHOOSE e \in Range(FORM_LABELS) : e[1] = key)[2]

STOP_WORDS ==
    { "Operator", "Address", "City", "State", "Zip Code", "County", "Telephone Number",
      "Field", "Section", "Township", "Range", "Qtr-Qtr", "Well File No.", "NDIC CTB No.",
      "Name of First Purchaser", "Name of Transporter", "Principal Place of Business" }

RECURSIVE ScanValue(_, _, _)
\* lines 145-152: the scan of lines[j .. hi-1] (0-based j, as in the code).
\* <<"value", v>>, <<"none">> (return None) or <<"next">> (the window ran out).
ScanValue(lines, j, hi) ==
    IF j >= hi THEN <<"next">>
    ELSE LET v == lines[j + 1]
         IN  IF v = "" THEN ScanValue(lines, j + 1, hi)
             ELSE IF v \in STOP_WORDS THEN <<"none">>
             ELSE <<"value", v>>

RECURSIVE ValueFrom(_, _, _)
\* lines 142-153: the loop over i (0-based)
ValueFrom(lines, label, i) ==
    IF i >= Len(lines) THEN <<>>
    ELSE IF LowerOf(lines[i + 1]) = LowerOf(label)
         THEN LET r == ScanValue(lines, i + 1, Min(i + 6, Len(lines)))
              IN  IF r[1] = "value" THEN <<r[2]>>
                  ELSE IF r[1] = "none" THEN <<>>
                  ELSE ValueFrom(lines, label, i + 1)
         ELSE ValueFrom(lines, label, i + 1)

value_after_label(lines, label) == ValueFrom(lines, label, 0)

RECURSIVE FirstLabelValue(_, _, _, _)
\* lines 162-166 and 173-177: the value of the first label, from position n of
\* labels, that yields one (holding a run of 3 to 6 digits, for the file number)
FirstLabelValue(lines, labels, n, needDigits) ==
    IF n > Len(labels) THEN <<>>
    ELSE LET v == value_after_label(lines, labels[n])
         IN  IF TruthyStr(v) /\ (needDigits => DigitRun(v[1]) # <<>>) THEN v
             ELSE FirstLabelValue(lines, labels, n + 1, needDigits)

\* parse_form_page_text: the dict out, as key -> optional value
parse_form_page_text(txt) ==
    LET lines == SelectSeq(txt, LAMBDA x : x # "")
        raw == [key \in FormKeys |->
                   IF key = "well_file_no"
                   THEN LET v == FirstLabelValue(lines, LabelsOf(key), 1, TRUE)
                        IN  IF v = <<>> THEN <<>> ELSE DigitRun(v[1])
                   ELSE FirstLabelValue(lines, LabelsOf(key), 1, FALSE)]
    IN  [key \in FormKeys |->
            IF key = "state" /\ TruthyStr(raw[key])
            THEN IF StrLen(UpperOf(raw[key][1])) = 2
                 THEN <<UpperOf(raw[key][1])>> ELSE raw[key]
            ELSE IF key = "county" /\ TruthyStr(raw[key])
            THEN <<TitleOf(raw[key][1])>>
            ELSE raw[key]]

MaxFormLines == 7    \* value_after_label is called on 1..MaxFormLines lines

\* The lines and labels value_after_label is called with: a label in two
\* spellings, a label of STOP_WORDS that is not asked for, and a value
FormCallLines == {"State", "STATE", "Operator", "nd"}
FormCallLabels == {"State", "Operator"}

FormIdle ==
    /\ formLines = <<>>
    /\ formLabel = ""
    /\ formOut = <<>>
    /\ formPc = "idle"

FormInit ==
    /\ \E n \in 1..MaxFormLines : formLines \in [1..n -> FormCallLines]
    /\ formLabel \in FormCallLabels
    /\ formOut = <<>>
    /\ formPc = "call"

\* value_after_label(lines, label)
FormCall ==
    /\ formPc = "call"
    /\ formOut' = value_after_label(formLines, formLabel)
    /\ formPc' = "done"
    /\ UNCHANGED <<formLines, formLabel>>

(***************************************************************************)
(* ocr_pages_batch                                                         *)
(*                                                                         *)
(* pdfOcr[p] is the text the rasterizer and the OCR engine give for page p *)
(* (0-based) of the PDF.  A rasterization call convert_from_path(a+1, b+1) *)
(* returns one image per page, returns fewer images, or raises.            *)
(***************************************************************************)
MaxOcrPage == 4      \* requested page indices are drawn from 0..MaxOcrPage
MaxOcrReq == 4       \* a request lists at most MaxOcrReq indices

RECURSIVE ChunkLoop(_, _, _, _)
\* lines 287-293: the loop over page_indices[1:] and the final append
ChunkLoop(rest, start, prev, chunks) ==
    IF rest = <<>> THEN Append(chunks, <<start, prev>>)
    ELSE IF Head(rest) = prev + 1
         THEN ChunkLoop(Tail(rest), start, Head(rest), chunks)
         ELSE ChunkLoop(Tail(rest), Head(rest), Head(rest), Append(chunks, <<start, prev>>))

RECURSIVE ChunkLoopNoFinal(_, _, _, _)
\* The loop without the append of the last run after it
ChunkLoopNoFinal(rest, start, prev, chunks) ==
    IF rest = <<>> THEN chunks
    ELSE IF Head(rest) = prev + 1
         THEN ChunkLoopNoFinal(Tail(rest), start, Head(rest), chunks)
         ELSE ChunkLoopNoFinal(Tail(rest), Head(rest), Head(rest),
                               Append(chunks, <<start, prev>>))

Chunks_DropLast(page_indices) ==
    ChunkLoopNoFinal(Tail(page_indices), page_indices[1], page_indices[1], <<>>)

\* chunks, for the sorted duplicate-free non-empty page_indices
Chunks(page_indices) ==
    ChunkLoop(Tail(page_indices), page_indices[1], page_indices[1], <<>>)

EmptyMap == [p \in {} |-> <<>>]

OcrIdle ==
    /\ ocrReq = <<>>
    /\ ocrChunks = <<>>
    /\ ocrNext = 1
    /\ ocrCalls = <<>>
    /\ ocrFull = TRUE
    /\ ocrOut = EmptyMap
    /\ ocrPc = "idle"

OcrInit ==
    /\ pdfOcr = [p \in 0..MaxOcrPage |-> <<"Operator">>]
    /\ ocrReq \in SeqsUpTo(0..MaxOcrPage, MaxOcrReq)
    /\ ocrChunks = <<>>
    /\ ocrNext = 1
    /\ ocrCalls = <<>>
    /\ ocrFull = TRUE
    /\ ocrOut = EmptyMap
    /\ ocrPc = "call"

\* lines 278-293: the empty request returns {}; otherwise the chunks are built
OcrCall ==
    /\ ocrPc = "call"
    /\ IF ocrReq = <<>>
       THEN /\ ocrPc' = "done"
            /\ UNCHANGED ocrChunks
       ELSE /\ ocrChunks' = Chunks(SetToSorted(Range(ocrReq)))
            /\ ocrPc' = "loop"
    /\ ocrNext' = 1
    /\ ocrCalls' = <<>>
    /\ ocrFull' = TRUE
    /\ ocrOut' = EmptyMap
    /\ UNCHANGED <<pdfOcr, ocrReq>>

\* lines 295-298, one iteration: the call returns k images, which are recognized
\* into out[a], ..., out[a + k - 1]; after the last chunk the function returns
OcrRasterize ==
    /\ ocrPc = "loop"
    /\ ocrNext <= Len(ocrChunks)
    /\ LET a == ocrChunks[ocrNext][1]
           b == ocrChunks[ocrNext][2]
       IN  /\ ocrCalls' = Append(ocrCalls, <<a + 1, b + 1>>)
           /\ \E k \in 0..(b - a + 1) :
                 /\ ocrOut' = [p \in (DOMAIN ocrOut) \cup (a..(a + k - 1)) |->
                                  IF p \in a..(a + k - 1) THEN pdfOcr[p] ELSE ocrOut[p]]
                 /\ ocrFull' = (ocrFull /\ k = b - a + 1)
    /\ ocrNext' = ocrNext + 1
    /\ ocrPc' = IF ocrNext + 1 > Len(ocrChunks) THEN "done" ELSE "loop"
    /\ UNCHANGED <<pdfOcr, ocrReq, ocrChunks>>

\* lines 296-298: convert_from_path or ocr_image raises; nothing catches it in
\* ocr_pages_batch, so the call ends without a result
OcrRaise ==
    /\ ocrPc = "loop"
    /\ ocrNext <= Len(ocrChunks)
    /\ ocrCalls' = Append(ocrCalls, <<ocrChunks[ocrNext][1] + 1, ocrChunks[ocrNext][2] + 1>>)
    /\ ocrPc' = "raised"
    /\ UNCHANGED <<pdfOcr, ocrReq, ocrChunks, ocrNext, ocrFull, ocrOut>>

(***************************************************************************)
(* extract_from_pdf                                                        *)
(*                                                                         *)
(* pdfPages is the list of the PDF's text-layer page texts: page i         *)
(* (0-based) is pdfPages[i + 1].  page.extract_text() returns that text or *)
(* raises.  The OCR pass runs ocr_pages_batch (the actions above).         *)
(***************************************************************************)
MaxPages == 3        \* a document has 1..MaxPages pages

TxtBlank == <<>>
TxtFormND ==
    <<"Well File No.", "12345", "Well Name and Number", "JOHNSON 1-H", "State", "nd">>
TxtFormTX ==
    <<"Well Name and Number", "SMITH 2-H", "State", "TX", "County", "mckenzie">>
TxtShort == <<"State", "TX">>
TxtCoord == <<CoordLine>>
TxtStim ==
    <<"Date Stimulated 03/14/2019", "Stimulation Stages 12", "Lbs Proppant 185000">>

\* The pages of the model: a page's text layer and what OCR reads on it
PageKinds ==
    { [layer |-> TxtFormND, ocr |-> TxtFormND],    \* digitally filed form
      [layer |-> TxtBlank,  ocr |-> TxtFormTX],    \* scanned form
      [layer |-> TxtBlank,  ocr |-> TxtStim],      \* scanned stimulation page
      [layer |-> TxtStim,   ocr |-> TxtStim],      \* digitally filed stimulation page
      [layer |-> TxtCoord,  ocr |-> TxtCoord],     \* page naming latitude/longitude
      [layer |-> TxtShort,  ocr |-> TxtFormND] }   \* form with a thin text layer

WELL_KEYWORDS == {"latitude", "longitude", "datum", "surface hole location", "shl", "api"}
STIM_KEYWORDS ==
    { "Well Specific Stimulations", "Lbs Proppant", "Stimulation Stages",
      "Maximum Mreatment Pressure", "Maximum Treatment Rate", "Date Stimulated",
      "Stimulated Formation", "Top (Ft)", "Bottom (Ft)", "Volume Units" }

LowTextChars == 40       \* len(text.strip()) < 40
N_SCANNED_CAP == 25
PickFirstArg == 25       \* pick_scanned_pages(low_text_pages, first=25, ...)
PickLastArg == 25
PickStepArg == 15
LastLowPages == 8        \* low_text_pages[-8:]

\* The keys the accumulator is read or written under
WellKeys == FormKeys \cup {"api", "latitude_raw", "longitude_raw"}

\* len(text.strip()), the text being its lines joined by "\n" (the texts of the
\* model neither start nor end with a blank line)
RECURSIVE SumLen(_)
SumLen(t) == IF t = <<>> THEN 0 ELSE StrLen(Head(t)) + SumLen(Tail(t))
TextLen(t) == IF t = <<>> THEN 0 ELSE SumLen(t) + Len(t) - 1

\* any(k in t for k in keywords), t = text.lower()
AnyKeyword(text, keywords) ==
    \E i \in DOMAIN text : \E k \in keywords : Contains(LowerOf(text[i]), k)

\* The merge writes every non-empty value of w, set before or not.
MergeWell_Overwrite(acc, w) ==
    [k \in WellKeys |-> IF k \in DOMAIN w /\ TruthyStr(w[k]) THEN w[k] ELSE acc[k]]

\* lines 325-327 and 377-379: for k, v in w.items(): if v and not well.get(k)
MergeWell(acc, w) ==
    [k \in WellKeys |->
        IF k \in DOMAIN w /\ TruthyStr(w[k]) /\ ~TruthyStr(acc[k]) THEN w[k] ELSE acc[k]]

\* The records of every OCR page are appended, found before or not.
MergeStims_Always(blocks, found) == blocks \o found

\* lines 381-382: if len(stim_blocks) == 0: stim_blocks.extend(...)
MergeStims(blocks, found) == IF Len(blocks) = 0 THEN blocks \o found ELSE blocks

\* Completeness with any location field in place of the two coordinates.
Complete_AnyLocation(acc, stims) ==
    /\ TruthyStr(acc["well_file_no"]) \/ TruthyStr(acc["api"])
    /\ TruthyStr(acc["well_name"])
    /\ \E k \in {"latitude_raw", "longitude_raw", "address", "city", "state", "zip",
                  "county"} : TruthyStr(acc[k])
    /\ Len(stims) > 0

\* lines 342-347 and 385-390
Complete(acc, stims) ==
    LET have_coords == TruthyStr(acc["latitude_raw"]) /\ TruthyStr(acc["longitude_raw"])
        have_well_id == TruthyStr(acc["well_file_no"]) \/ TruthyStr(acc["api"])
        have_name == TruthyStr(acc["well_name"])
        have_stim == Len(stims) > 0
    IN  have_coords /\ have_well_id /\ have_name /\ have_stim

\* lines 353-368
PagesToOcr(low, likelyWell, likelyStim) ==
    Range(pick_scanned_pages(low, PickFirstArg, PickLastArg, PickStepArg))
    \cup Range(Slice(low, 0, N_SCANNED_CAP))
    \cup Range(LastSlice(low, LastLowPages))
    \cup Range(likelyWell)
    \cup Range(likelyStim)

EmptyWell == [k \in WellKeys |-> <<>>]

ExtractIdle ==
    /\ pdfPages = <<>>
    /\ well = EmptyWell
    /\ stim_blocks = <<>>
    /\ low_text_pages = <<>>
    /\ likely_well_pages = <<>>
    /\ likely_stim_pages = <<>>
    /\ exI = 0
    /\ pages_to_ocr = {}
    /\ exKeys = <<>>
    /\ exLog = <<>>
    /\ exText = <<EmptyWell, <<>> >>
    /\ exPc = "idle"
    /\ exErr = "none"

ExtractInit ==
    /\ \E n \in 1..MaxPages : \E doc \in [1..n -> PageKinds] :
          /\ pdfPages = [i \in 1..n |-> doc[i].layer]
          /\ pdfOcr = [p \in 0..(n - 1) |-> doc[p + 1].ocr]
    /\ well = EmptyWell
    /\ stim_blocks = <<>>
    /\ low_text_pages = <<>>
    /\ likely_well_pages = <<>>
    /\ likely_stim_pages = <<>>
    /\ exI = 0
    /\ pages_to_ocr = {}
    /\ exKeys = <<>>
    /\ exLog = <<>>
    /\ exText = <<EmptyWell, <<>> >>
    /\ exPc = "text"
    /\ exErr = "none"

\* lines 319-339: one page of the text-layer loop
ExtractPage ==
    /\ exPc = "text"
    /\ exI < Len(pdfPages)
    /\ LET text == pdfPages[exI + 1]
       IN  /\ well' = MergeWell(well, parse_form_page_text(text))
           /\ stim_blocks' = stim_blocks \o parse_stimulation_text(text)
           /\ low_text_pages' = IF TextLen(text) < LowTextChars
                                THEN Append(low_text_pages, exI) ELSE low_text_pages
           /\ likely_well_pages' = IF AnyKeyword(text, WELL_KEYWORDS)
                                   THEN Append(likely_well_pages, exI)
                                   ELSE likely_well_pages
           /\ likely_stim_pages' = IF AnyKeyword(text, STIM_KEYWORDS)
                                   THEN Append(likely_stim_pages, exI)
                                   ELSE likely_stim_pages
    /\ exLog' = Append(exLog, <<"layer", exI>>)
    /\ exI' = exI + 1
    /\ exPc' = IF exI + 1 = Len(pdfPages) THEN "select" ELSE "text"
    /\ UNCHANGED <<pdfPages, pages_to_ocr, exKeys, exText, exErr>>

\* line 320: page.extract_text() raises; extract_from_pdf has no handler, the
\* exception leaves the function
ExtractPageRaise ==
    /\ exPc = "text"
    /\ exI < Len(pdfPages)
    /\ exPc' = "raised"
    /\ exErr' = "text"
    /\ UNCHANGED <<pdfPages, well, stim_blocks, low_text_pages, likely_well_pages,
                   likely_stim_pages, exI, pages_to_ocr, exKeys, exLog, exText>>

\* lines 341-371: the completeness test after the text-layer pass, then the
\* choice of the pages to OCR and the call of ocr_pages_batch
ExtractSelect ==
    /\ exPc = "select"
    /\ exText' = <<well, stim_blocks>>
    /\ IF Complete(well, stim_blocks)
       THEN /\ exPc' = "done"
            /\ UNCHANGED <<pages_to_ocr, ocrReq, ocrPc>>
       ELSE /\ pages_to_ocr' = PagesToOcr(low_text_pages, likely_well_pages,
                                          likely_stim_pages)
            /\ ocrReq' = SetToSorted(pages_to_ocr')
            /\ ocrPc' = "call"
            /\ exPc' = "ocr"
    /\ UNCHANGED <<pdfPages, well, stim_blocks, low_text_pages, likely_well_pages,
                   likely_stim_pages, exI, exKeys, exLog, exErr>>
    /\ UNCHANGED <<pdfOcr, ocrChunks, ocrNext, ocrCalls, ocrFull, ocrOut>>

\* lines 371-373: ocr_pages_batch returned ocr_map
ExtractOcrReturned ==
    /\ exPc = "ocr"
    /\ ocrPc = "done"
    /\ exKeys' = SetToSorted(DOMAIN ocrOut)
    /\ exPc' = IF DOMAIN ocrOut = {} THEN "done" ELSE "merge"
    /\ UNCHANGED <<pdfPages, well, stim_blocks, low_text_pages, likely_well_pages,
                   likely_stim_pages, exI, pages_to_ocr, exLog, exText, exErr>>

\* line 371: ocr_pages_batch raised; extract_from_pdf has no handler
ExtractOcrRaised ==
    /\ exPc = "ocr"
    /\ ocrPc = "raised"
    /\ exPc' = "raised"
    /\ exErr' = "ocr"
    /\ UNCHANGED <<pdfPages, well, stim_blocks, low_text_pages, likely_well_pages,
                   likely_stim_pages, exI, pages_to_ocr, exKeys, exLog, exText>>

\* lines 373-393: one page of the OCR merge loop, with its early break
ExtractMerge ==
    /\ exPc = "merge"
    /\ exKeys # <<>>
    /\ LET i == Head(exKeys)
           ocr_txt == ocrOut[i]
       IN  /\ well' = MergeWell(well, parse_form_page_text(ocr_txt))
           /\ stim_blocks' = MergeStims(stim_blocks, parse_stimulation_text(ocr_txt))
           /\ exLog' = Append(exLog, <<"ocr", i>>)
    /\ IF Complete(well', stim_blocks')
       THEN /\ exPc' = "done"
            /\ UNCHANGED exKeys
       ELSE /\ exKeys' = Tail(exKeys)
            /\ exPc' = IF Tail(exKeys) = <<>> THEN "done" ELSE "merge"
    /\ UNCHANGED <<pdfPages, low_text_pages, likely_well_pages, likely_stim_pages,
                   exI, pages_to_ocr, exText, exErr>>

(***************************************************************************)
(* upsert_to_db and main                                                   *)
(*                                                                         *)
(* dbWells and dbStims are the committed rows of the tables wells and      *)
(* stimulations; session holds the rows the session has added in the open  *)
(* transaction.  A document is what extract_from_pdf                       *)
(* returns for it; extract_from_pdf may also raise (ExtractPageRaise,      *)
(* ExtractOcrRaised).  upsert_to_db reads well_data["api"], so the         *)
(* documents range over results with and without an API number.  A file    *)
(* is named by its position in the sorted list pdfs.                       *)
(***************************************************************************)
MaxDocs == 3         \* the folder holds 1..MaxDocs PDF files

DocKinds ==
    { [well_file_no |-> <<"12345">>, api |-> <<>>,     well_name |-> <<"JOHNSON 1-H">>, stims |-> 1],
      [well_file_no |-> <<"12345">>, api |-> <<"A1">>, well_name |-> <<"JOHNSON 1-H">>, stims |-> 2],
      [well_file_no |-> <<"67890">>, api |-> <<"A1">>, well_name |-> <<"SMITH 2-H">>,   stims |-> 1],
      [well_file_no |-> <<>>,        api |-> <<"A1">>, well_name |-> <<"SMITH 2-H">>,   stims |-> 1],
      [well_file_no |-> <<>>,        api |-> <<>>,     well_name |-> <<>>,              stims |-> 0] }

SetMax(S) == IF S = {} THEN 0 ELSE CHOOSE x \in S : \A y \in S : y <= x

\* session.query(Well).filter(column == value).one_or_none(), over the rows the
\* session sees: <<>> or <<row>> (the columns are unique, so never two rows)
OneOrNone(rows, column, value) ==
    LET hits == {r \in rows : r[column] = <<value>>}
    IN  IF hits = {} THEN <<>> ELSE <<CHOOSE r \in hits : TRUE>>

\* No lookup: every document is taken to name a well not yet in the table.
ResolveWell_Never(rows, well_data) == <<>>

\* lines 399-404: the well the document resolves to among the rows seen
ResolveWell(rows, well_data) ==
    IF TruthyStr(well_data.well_file_no)
    THEN OneOrNone(rows, "well_file_no", well_data.well_file_no[1])
    ELSE IF TruthyStr(well_data.api)
    THEN OneOrNone(rows, "api", well_data.api[1])
    ELSE <<>>

\* The INSERT of session.flush() violates a UNIQUE constraint of wells
\* (NULLs never collide)
UniqueViolation(rows, row) ==
    \E r \in rows :
        \/ row.api # <<>> /\ r.api = row.api
        \/ row.well_file_no # <<>> /\ r.well_file_no = row.well_file_no

\* lines 406-417: the Well row built when no row matched
NewWell(rows, well_data, source_pdf) ==
    [ id           |-> SetMax({r.id : r \in rows}) + 1,
      api          |-> well_data.api,
      well_file_no |-> well_data.well_file_no,
      well_name    |-> well_data.well_name,
      source_pdf   |-> source_pdf ]

\* lines 419-436: the Stimulation rows added for the document
NewStims(well_id, stim_data, source_pdf) ==
    [n \in 1..stim_data |-> [well_id |-> well_id, source_pdf |-> source_pdf, record |-> n]]

\* session.rollback() leaves the rows added in the transaction in the session.
AfterRollback_Keep(sess) == sess

\* session.rollback(): the rows added in the transaction are discarded
AfterRollback(sess) == [wells |-> {}, stims |-> <<>>]

MainIdle ==
    /\ mainDocs = <<>>
    /\ mainI = 1
    /\ mainCur = <<>>
    /\ dbWells = {}
    /\ dbStims = <<>>
    /\ session = [wells |-> {}, stims |-> <<>>]
    /\ mainOutcome = <<>>
    /\ mainPc = "idle"

MainInit ==
    /\ \E n \in 1..MaxDocs : mainDocs \in [1..n -> DocKinds]
    /\ mainI = 1
    /\ mainCur = <<>>
    /\ dbWells = {}
    /\ dbStims = <<>>
    /\ session = [wells |-> {}, stims |-> <<>>]
    /\ mainOutcome = <<>>
    /\ mainPc = "extract"

\* lines 456-458 and the loop header: the except branch, then the next file
MainFail(what) ==
    /\ session' = AfterRollback(session)
    /\ mainOutcome' = Append(mainOutcome, what)
    /\ mainCur' = <<>>
    /\ mainI' = mainI + 1
    /\ mainPc' = IF mainI + 1 > Len(mainDocs) THEN "done" ELSE "extract"
    /\ UNCHANGED <<dbWells, dbStims>>

\* line 452: extract_from_pdf returns (well, stims)
MainExtract ==
    /\ mainPc = "extract"
    /\ mainCur' = <<mainDocs[mainI]>>
    /\ mainPc' = "upsert"
    /\ UNCHANGED <<mainDocs, mainI, dbWells, dbStims, session, mainOutcome>>

\* line 452: extract_from_pdf raises
MainExtractRaise ==
    /\ mainPc = "extract"
    /\ MainFail("extract raised")
    /\ UNCHANGED mainDocs

\* line 453: upsert_to_db adds the document's rows to the session, or its flush
\* raises on a uniqueness violation
MainUpsert ==
    /\ mainPc = "upsert"
    /\ LET d == mainCur[1]
           rows == dbWells \cup session.wells
           found == ResolveWell(rows, d)
           fresh == NewWell(rows, d, mainI)
       IN  IF found = <<>> /\ UniqueViolation(rows, fresh)
           THEN MainFail("upsert raised")
           ELSE /\ session' =
                       [wells |-> IF found = <<>> THEN session.wells \cup {fresh}
                                  ELSE session.wells,
                        stims |-> session.stims \o
                                  NewStims(IF found = <<>> THEN fresh.id ELSE found[1].id,
                                           d.stims, mainI)]
                /\ mainPc' = "commit"
                /\ UNCHANGED <<mainI, mainCur, dbWells, dbStims, mainOutcome>>
    /\ UNCHANGED mainDocs

\* lines 454-455: session.commit() writes the transaction
MainCommit ==
    /\ mainPc = "commit"
    /\ dbWells' = dbWells \cup session.wells
    /\ dbStims' = dbStims \o session.stims
    /\ session' = [wells |-> {}, stims |-> <<>>]
    /\ mainOutcome' = Append(mainOutcome, "ok")
    /\ mainCur' = <<>>
    /\ mainI' = mainI + 1
    /\ mainPc' = IF mainI + 1 > Len(mainDocs) THEN "done" ELSE "extract"
    /\ UNCHANGED mainDocs

\* line 454: session.commit() raises (the database refuses the write)
MainCommitRaise ==
    /\ mainPc = "commit"
    /\ MainFail("commit raised")
    /\ UNCHANGED mainDocs

(***************************************************************************)
(* Specifications                                                          *)
(***************************************************************************)
PdfIdle == pdfOcr = EmptyMap

InitPick == PickInit /\ StimIdle /\ OcrIdle /\ PdfIdle /\ ExtractIdle /\ MainIdle /\ FormIdle
NextPick == PickCall /\ UNCHANGED <<stimVars, ocrVars, exVars, mainVars, formVars>>
SpecPick == InitPick /\ [][NextPick]_vars

InitStim == StimInit /\ PickIdle /\ OcrIdle /\ PdfIdle /\ ExtractIdle /\ MainIdle /\ FormIdle
NextStim == StimCall /\ UNCHANGED <<pickVars, ocrVars, exVars, mainVars, formVars>>
SpecStim == InitStim /\ [][NextStim]_vars

InitOcr == OcrInit /\ PickIdle /\ StimIdle /\ ExtractIdle /\ MainIdle /\ FormIdle
NextOcr ==
    \/ OcrCall /\ UNCHANGED <<pickVars, stimVars, exVars, mainVars, formVars>>
    \/ OcrRasterize /\ UNCHANGED <<pickVars, stimVars, exVars, mainVars, formVars>>
    \/ OcrRaise /\ UNCHANGED <<pickVars, stimVars, exVars, mainVars, formVars>>
SpecOcr == InitOcr /\ [][NextOcr]_vars

InitExtract == ExtractInit /\ OcrIdle /\ PickIdle /\ StimIdle /\ MainIdle /\ FormIdle
NextExtract ==
    \/ ExtractPage /\ UNCHANGED <<pickVars, stimVars, ocrVars, mainVars, formVars>>
    \/ ExtractPageRaise /\ UNCHANGED <<pickVars, stimVars, ocrVars, mainVars, formVars>>
    \/ ExtractSelect /\ UNCHANGED <<pickVars, stimVars, mainVars, formVars>>
    \/ OcrCall /\ UNCHANGED <<pickVars, stimVars, exVars, mainVars, formVars>>
    \/ OcrRasterize /\ UNCHANGED <<pickVars, stimVars, exVars, mainVars, formVars>>
    \/ OcrRaise /\ UNCHANGED <<pickVars, stimVars, exVars, mainVars, formVars>>
    \/ ExtractOcrReturned /\ UNCHANGED <<pickVars, stimVars, ocrVars, mainVars, formVars>>
    \/ ExtractOcrRaised /\ UNCHANGED <<pickVars, stimVars, ocrVars, mainVars, formVars>>
    \/ ExtractMerge /\ UNCHANGED <<pickVars, stimVars, ocrVars, mainVars, formVars>>
SpecExtract == InitExtract /\ [][NextExtract]_vars

InitForm == FormInit /\ PickIdle /\ StimIdle /\ OcrIdle /\ PdfIdle /\ ExtractIdle /\ MainIdle
NextForm == FormCall /\ UNCHANGED <<pickVars, stimVars, ocrVars, exVars, mainVars>>
SpecForm == InitForm /\ [][NextForm]_vars

InitMain == MainInit /\ PickIdle /\ StimIdle /\ OcrIdle /\ PdfIdle /\ ExtractIdle /\ FormIdle
NextMain ==
    \/ MainExtract /\ UNCHANGED <<pickVars, stimVars, ocrVars, exVars, formVars>>
    \/ MainExtractRaise /\ UNCHANGED <<pickVars, stimVars, ocrVars, exVars, formVars>>
    \/ MainUpsert /\ UNCHANGED <<pickVars, stimVars, ocrVars, exVars, formVars>>
    \/ MainCommit /\ UNCHANGED <<pickVars, stimVars, ocrVars, exVars, formVars>>
    \/ MainCommitRaise /\ UNCHANGED <<pickVars, stimVars, ocrVars, exVars, formVars>>
SpecMain == InitMain /\ [][NextMain]_vars

(***************************************************************************)
(* Properties                                                              *)
(***************************************************************************)
CeilDiv(a, b) == (a + b - 1) \div b

\* C10: for distinct low-text pages and first, last, step >= 1 the result of
\* pick_scanned_pages is a sorted duplicate-free subset of the input holding the
\* first `first` and the last `last` pages; with n >= first + last it has exactly
\* first + last + ceil((n - first - last) / step) elements, and with
\* n <= first + last it is the whole input.
C10_StratifiedCount ==
    (pickPc = "done" /\ pickFirst >= 1 /\ pickLast >= 1 /\ pickStep >= 1) =>
        LET n == Len(pickIn)
            low == Sorted(pickIn)
        IN  /\ IsSorted(pickOut)
            /\ NoDup(pickOut)
            /\ Range(pickOut) \subseteq Range(pickIn)
            /\ \A i \in 1..Min(pickFirst, n) : low[i] \in Range(pickOut)
            /\ \A i \in 1..Min(pickLast, n) : low[n + 1 - i] \in Range(pickOut)
            /\ n >= pickFirst + pickLast =>
                   Len(pickOut) = pickFirst + pickLast
                                  + CeilDiv(n - pickFirst - pickLast, pickStep)
            /\ n <= pickFirst + pickLast => Range(pickOut) = Range(pickIn)
            /\ (n = 200 /\ pickFirst = 25 /\ pickLast = 25 /\ pickStep = 15) =>
                   Len(pickOut) = 60

\* C10 witness: a call with a sampled middle (n > first + last, step > 1) returned.
C10_Witness ==
    /\ pickPc = "done"
    /\ pickFirst >= 1 /\ pickLast >= 1 /\ pickStep > 1
    /\ Len(pickIn) >= pickFirst + pickLast + pickStep + 1
    /\ Len(pickOut) < Len(pickIn)

(***************************************************************************)
(* The row and treatment-type lines of the tabular stimulation format      *)
(***************************************************************************)
IsRowLine(l) == l \in {RowLine1, RowLine2}
IsTreatLine(l) == l \in {TreatLine4, TreatLine3, TreatLine2}
RowLines(t) == SelectSeq(t, IsRowLine)
RowDate(l) == IF l = RowLine1 THEN "03/14/2019" ELSE "04/02/2020"
TreatLabel(l) ==
    CASE l = TreatLine4 -> "Slickwater" [] l = TreatLine3 -> "Sand Frac" [] l = TreatLine2 -> "Gel"
TreatNumbers(l) ==
    CASE l = TreatLine4 -> <<6, 185000, 9200, 62>>
      [] l = TreatLine3 -> <<120000, 8500, 40>>
      [] l = TreatLine2 -> <<90000, 7000>>
\* a date-stimulated or stimulation-stages phrase is in the text
HeaderSignal(t) == \E i \in DOMAIN t : LineSignals(t[i]) \cap {1, 2} # {}

\* The fields a treatment-type line gives a record, by the count of its numbers
PositionalFields(r, l) ==
    LET n == TreatNumbers(l)
    IN  /\ r.treatment_type = <<TreatLabel(l)>>
        /\ Len(n) = 4 => /\ r.acid_pct = <<n[1]>> /\ r.lbs_proppant = <<n[2]>>
                         /\ r.max_pressure_psi = <<n[3]>> /\ r.max_rate_bbl_min = <<n[4]>>
        /\ Len(n) = 3 => /\ r.acid_pct = <<>> /\ r.lbs_proppant = <<n[1]>>
                         /\ r.max_pressure_psi = <<n[2]>> /\ r.max_rate_bbl_min = <<n[3]>>
        /\ Len(n) = 2 => /\ r.acid_pct = <<>> /\ r.lbs_proppant = <<n[1]>>
                         /\ r.max_pressure_psi = <<n[2]>> /\ r.max_rate_bbl_min = <<>>

\* C3: for a block with a header signal parse_stimulation_text returns exactly
\* one record per row line, in line order (k row lines give k records; one row
\* line followed by detail lines gives one record).
C3_OneRecordPerRow ==
    (stimPc = "done" /\ HeaderSignal(stimTxt)) =>
        /\ Len(stimOut) = Len(RowLines(stimTxt))
        /\ \A i \in DOMAIN stimOut :
               stimOut[i].date_stimulated = <<RowDate(RowLines(stimTxt)[i])>>

\* C4: for a text with a row line followed by a treatment-type line, the record
\* returned by parse_stimulation_text has the line's label as treatment_type and
\* its 4, 3 or 2 trailing numbers assigned by position to acid_pct, lbs_proppant,
\* max_pressure_psi, max_rate_bbl_min.
C4_PositionalAssignment ==
    stimPc = "done" =>
        \A i \in 1..(Len(stimTxt) - 1) :
            (IsRowLine(stimTxt[i]) /\ IsTreatLine(stimTxt[i + 1])) =>
                \E k \in DOMAIN stimOut : PositionalFields(stimOut[k], stimTxt[i + 1])

StrongFields ==
    {"lbs_proppant", "max_pressure_psi", "stages", "formation", "date_stimulated"}

\* C5: parse_stimulation_text returns a non-empty list, and then exactly one
\* record, only if at least 2 distinct signal patterns match the text and at
\* least 2 strong fields of the record are populated; a text matching no signal
\* pattern yields the empty list.
C5_MinimumEvidence ==
    stimPc = "done" =>
        /\ stimOut # <<>> =>
               /\ Len(stimOut) = 1
               /\ Signals(stimTxt) >= 2
               /\ Cardinality({k \in StrongFields : stimOut[1][k] # <<>>}) >= 2
        /\ Signals(stimTxt) = 0 => stimOut = <<>>

\* C5 witness: a text with two signals and two strong fields gave one record.
C5_Witness ==
    /\ stimPc = "done"
    /\ Len(stimOut) = 1
    /\ Signals(stimTxt) = 2
    /\ Cardinality({k \in StrongFields : stimOut[1][k] # <<>>}) = 2

(***************************************************************************)
(* ocr_pages_batch properties                                              *)
(***************************************************************************)
\* The maximal runs of consecutive integers of a set, as (a, b) pairs
MaximalRuns(S) ==
    {<<a, b>> \in S \X S :
        /\ a <= b
        /\ \A p \in a..b : p \in S
        /\ (a - 1) \notin S
        /\ (b + 1) \notin S}

\* C6: for a non-empty request ocr_pages_batch makes exactly one rasterization
\* call per maximal run of consecutive integers of the deduplicated request, for
\* the 1-based inclusive range (a+1, b+1); the ranges are pairwise disjoint and
\* non-adjacent, their union is the requested set, and when every call returns
\* one image per page the keys of the result are the requested indices.
C6_OneCallPerRun ==
    (ocrPc = "done" /\ ocrReq # <<>>) =>
        LET S == Range(ocrReq)
        IN  /\ Len(ocrCalls) = Cardinality(MaximalRuns(S))
            /\ Range(ocrCalls) = {<<r[1] + 1, r[2] + 1>> : r \in MaximalRuns(S)}
            /\ \A i, j \in DOMAIN ocrCalls :
                   i < j => ocrCalls[i][2] + 1 < ocrCalls[j][1]
            /\ UNION {(c[1] - 1)..(c[2] - 1) : c \in Range(ocrCalls)} = S
            /\ ocrFull => DOMAIN ocrOut = S

\* C6 witness: a request out of order with a duplicate, in two runs one of which
\* spans several pages, was served.
C6_Witness ==
    /\ ocrPc = "done"
    /\ ocrFull
    /\ ~IsSorted(ocrReq)
    /\ ~NoDup(ocrReq)
    /\ Len(ocrCalls) = 2
    /\ \E i \in DOMAIN ocrCalls : ocrCalls[i][1] < ocrCalls[i][2]

(***************************************************************************)
(* extract_from_pdf properties                                             *)
(***************************************************************************)
\* The text of a merged (pass, page) pair, and the fields its extraction yields
LogText(e) == IF e[1] = "layer" THEN pdfPages[e[2] + 1] ELSE pdfOcr[e[2]]
LogYield(e) == parse_form_page_text(LogText(e))
Yields(e, k) == k \in DOMAIN LogYield(e) /\ TruthyStr(LogYield(e)[k])

\* The value of k on the first merged page, in processing order, that yields k
FirstYield(k) ==
    IF \E i \in DOMAIN exLog : Yields(exLog[i], k)
    THEN LET i == CHOOSE i \in DOMAIN exLog :
                      /\ Yields(exLog[i], k)
                      /\ \A j \in 1..(i - 1) : ~Yields(exLog[j], k)
         IN  LogYield(exLog[i])[k]
    ELSE <<>>

\* C1: first-writer-wins over the whole document: at every point of
\* extract_from_pdf each well field holds the value of the first page, in
\* processing order over the text-layer pass and then the OCR pass, whose
\* extraction yielded it; no later page changes it.
C1_FirstWriterWins == \A k \in WellKeys : well[k] = FirstYield(k)

\* C1 witness: a finished document where the text layer of one page yielded
\* state "ND" and the OCR of a later page yielded "TX", and the state is "ND".
C1_Witness ==
    /\ exPc = "done"
    /\ \E i, j \in DOMAIN exLog :
          /\ i < j
          /\ exLog[i][1] = "layer"
          /\ exLog[j][1] = "ocr"
          /\ LogYield(exLog[i])["state"] = <<"ND">>
          /\ LogYield(exLog[j])["state"] = <<"TX">>
    /\ well["state"] = <<"ND">>

\* A location field of the well record is set
LocationSignal(w) ==
    \E k \in {"latitude_raw", "longitude_raw", "address", "city", "state", "zip", "county"} :
        TruthyStr(w[k])

\* The completeness predicate: identity, name, a location signal, a record
CompletePredicate(w, stims) ==
    /\ TruthyStr(w["well_file_no"]) \/ TruthyStr(w["api"])
    /\ TruthyStr(w["well_name"])
    /\ LocationSignal(w)
    /\ Len(stims) > 0

\* C2: when the text-layer pass alone yields an identity, a well name, a location
\* signal and a stimulation record, extract_from_pdf returns the text-layer
\* result and the rasterizer is never invoked.
C2_ShortCircuit ==
    (exPc \in {"ocr", "merge", "done", "raised"} /\ exErr # "text"
     /\ CompletePredicate(exText[1], exText[2])) =>
        /\ ocrCalls = <<>>
        /\ well = exText[1]
        /\ stim_blocks = exText[2]

\* C7: when rasterization or OCR fails for one run of ocr_pages_batch, the other
\* runs are still rasterized and extract_from_pdf goes on to return a result.
C7_OcrFailureIsolated ==
    (exPc \in {"done", "raised"} /\ exErr # "text" /\ ocrPc # "idle") =>
        /\ exPc = "done"
        /\ Len(ocrCalls) = Len(ocrChunks)

\* C8: when text-layer extraction throws on a page, extract_from_pdf treats the
\* page as empty, processes every remaining page and returns a result.
C8_PageFailureRecovered ==
    /\ exPc = "raised" => exErr # "text"
    /\ exPc = "done" =>
           \A p \in 0..(Len(pdfPages) - 1) : <<"layer", p>> \in Range(exLog)

(***************************************************************************)
(* main properties                                                         *)
(***************************************************************************)
\* The committed stimulations rows written for file d
StimsOf(d) == SelectSeq(dbStims, LAMBDA r : r.source_pdf = d)

\* C9: for every processed file d: if extraction or the write of d raised, no
\* wells row and no stimulations row of d is committed; if it succeeded, its
\* stimulations rows are committed, attached to a committed well, and stay so
\* whatever happens to later files; and main processes every file of the folder.
C9_DocumentIsolation ==
    /\ \A d \in DOMAIN mainOutcome :
          IF mainOutcome[d] # "ok"
          THEN /\ \A r \in dbWells : r.source_pdf # d
               /\ StimsOf(d) = <<>>
          ELSE /\ Len(StimsOf(d)) = mainDocs[d].stims
               /\ \A i \in DOMAIN StimsOf(d) :
                      \E w \in dbWells : w.id = StimsOf(d)[i].well_id
               /\ ResolveWell(dbWells, mainDocs[d]) # <<>>
                      \/ \E w \in dbWells : w.source_pdf = d
    /\ \A d \in DOMAIN mainDocs :
          (d >= mainI) => (\A r \in dbWells : r.source_pdf # d) /\ StimsOf(d) = <<>>
    /\ mainPc = "done" => Len(mainOutcome) = Len(mainDocs)

\* C9 witness: a file whose commit raised after its well and stimulation rows
\* were added to the session, followed by a file that was committed.
C9_Witness ==
    /\ mainPc = "done"
    /\ \E d \in DOMAIN mainOutcome :
          /\ mainOutcome[d] = "commit raised"
          /\ mainDocs[d].stims > 0
          /\ ResolveWell(dbWells, mainDocs[d]) = <<>>
          /\ d + 1 \in DOMAIN mainOutcome
          /\ mainOutcome[d + 1] = "ok"
          /\ StimsOf(d + 1) # <<>>
          /\ d > 1 /\ mainOutcome[d - 1] = "ok"

(***************************************************************************)
(* OCR candidate selection properties                                      *)
(***************************************************************************)
\* The keyword k occurs in the line ignoring letter case: it occurs in the line
\* as written or in the lower-cased line.
InLineIgnoringCase(line, k) == Contains(line, k) \/ Contains(LowerOf(line), k)

\* The page's text-layer text holds one of the WELL_KEYWORDS or STIM_KEYWORDS
KeywordFlagged(text) ==
    \E i \in DOMAIN text : \E k \in WELL_KEYWORDS \cup STIM_KEYWORDS :
        InLineIgnoringCase(text[i], k)

\* C11: whenever extract_from_pdf reaches the OCR stage, every page whose
\* text-layer text contains, ignoring letter case, a WELL_KEYWORDS or
\* STIM_KEYWORDS phrase is among the page indices passed to ocr_pages_batch.
C11_KeywordPagesAreCandidates ==
    (exPc \in {"ocr", "merge", "done", "raised"} /\ ocrPc # "idle") =>
        \A p \in 0..(Len(pdfPages) - 1) :
            KeywordFlagged(pdfPages[p + 1]) =>
                p \in pages_to_ocr /\ p \in Range(ocrReq)

\* The records of the text layers of pages 0..n-1, in page order
RECURSIVE LayerStims(_)
LayerStims(n) ==
    IF n = 0 THEN <<>> ELSE LayerStims(n - 1) \o parse_stimulation_text(pdfPages[n])

\* The OCR pages merged so far, in the order they were merged
OcrLog == SelectSeq(exLog, LAMBDA e : e[1] = "ocr")

\* The records of the first merged OCR page whose text yields any
FirstOcrStims ==
    IF \E i \in DOMAIN OcrLog : parse_stimulation_text(LogText(OcrLog[i])) # <<>>
    THEN LET i == CHOOSE i \in DOMAIN OcrLog :
                      /\ parse_stimulation_text(LogText(OcrLog[i])) # <<>>
                      /\ \A j \in 1..(i - 1) :
                             parse_stimulation_text(LogText(OcrLog[j])) = <<>>
         IN  parse_stimulation_text(LogText(OcrLog[i]))
    ELSE <<>>

\* C12: the text-layer pass collects the records of the pages in page order; when
\* it found at least one, the OCR pass leaves the list unchanged; when it found
\* none, OCR pages are merged in ascending page order and the list holds the
\* records of the first OCR page that yields any, and of no later one.
C12_OcrStimsOnlyWhenNone ==
    (exPc \in {"ocr", "merge", "done", "raised"} /\ exErr # "text") =>
        /\ exText[2] = LayerStims(Len(pdfPages))
        /\ exText[2] # <<>> => stim_blocks = exText[2]
        /\ exText[2] = <<>> => stim_blocks = FirstOcrStims
        /\ \A i, j \in DOMAIN OcrLog : i < j => OcrLog[i][2] < OcrLog[j][2]

\* C12 witness: the text layer found no record, two OCR pages that each yield a
\* record were merged, and the list holds one record.
C12_Witness ==
    /\ exPc = "done"
    /\ exText[2] = <<>>
    /\ \E i, j \in DOMAIN OcrLog :
          /\ i < j
          /\ parse_stimulation_text(LogText(OcrLog[i])) # <<>>
          /\ parse_stimulation_text(LogText(OcrLog[j])) # <<>>
    /\ Len(stim_blocks) = 1

(***************************************************************************)
(* upsert_to_db properties                                                 *)
(***************************************************************************)
\* The existing row a document resolves to: by file number if such a row exists,
\* else by API number if such a row exists, else none (<<>>)
TargetWell(rows, well_data) ==
    IF /\ TruthyStr(well_data.well_file_no)
       /\ \E r \in rows : r.well_file_no = well_data.well_file_no
    THEN <<CHOOSE r \in rows : r.well_file_no = well_data.well_file_no>>
    ELSE IF /\ TruthyStr(well_data.api)
            /\ \E r \in rows : r.api = well_data.api
    THEN <<CHOOSE r \in rows : r.api = well_data.api>>
    ELSE <<>>

\* C13: upsert_to_db resolves the document to the existing row with its file
\* number, else to the existing row with its API number, else to a newly
\* inserted row, and in every case adds all of the document's stimulation
\* records as new rows whose well_id is the id of the resolved well.
C13_ResolutionOrder ==
    /\ \A d \in DOMAIN mainOutcome : mainOutcome[d] # "upsert raised"
    /\ mainPc = "commit" =>
          LET d == mainCur[1]
              target == TargetWell(dbWells, d)
          IN  /\ Len(session.stims) = d.stims
              /\ IF target # <<>>
                 THEN /\ session.wells = {}
                      /\ \A i \in DOMAIN session.stims :
                             session.stims[i].well_id = target[1].id
                 ELSE \E w \in session.wells :
                          /\ session.wells = {w}
                          /\ w \notin dbWells
                          /\ \A i \in DOMAIN session.stims :
                                 session.stims[i].well_id = w.id

\* s is a prefix of t
IsPrefix(s, t) == Len(s) <= Len(t) /\ \A i \in DOMAIN s : t[i] = s[i]

\* The committed files whose document carries the file number f
OkDocsWith(f) ==
    {d \in DOMAIN mainOutcome : mainOutcome[d] = "ok" /\ mainDocs[d].well_file_no = f}

\* After every step: a file number that was committed has exactly one wells row,
\* holding the columns its first document gave it, and every committed document
\* with that file number has all its stimulation rows attached to that row; a
\* document whose file number is already committed is not refused by the write.
ReprocessedState ==
    \A d \in DOMAIN mainOutcome :
        LET f == mainDocs[d].well_file_no
            first == CHOOSE e \in OkDocsWith(f) : \A g \in OkDocsWith(f) : e <= g
        IN  (TruthyStr(f) /\ OkDocsWith(f) # {}) =>
                /\ (\E e \in OkDocsWith(f) : e < d) => mainOutcome[d] # "upsert raised"
                /\ \E w \in dbWells :
                      /\ {r \in dbWells : r.well_file_no = f} = {w}
                      /\ w.source_pdf = first
                      /\ w.api = mainDocs[first].api
                      /\ w.well_name = mainDocs[first].well_name
                      /\ \A e \in OkDocsWith(f) :
                            /\ Len(StimsOf(e)) = mainDocs[e].stims
                            /\ \A i \in DOMAIN StimsOf(e) : StimsOf(e)[i].well_id = w.id

\* C14: re-processing is append-only: processing a document with a file number
\* and k stimulation records twice leaves one wells row for it, unchanged by the
\* second run, and 2k stimulations rows attached to it; no step changes or
\* removes a committed row, and upsert_to_db changes or removes no row at all.
C14_AppendOnly ==
    [][ /\ dbWells \subseteq dbWells'
        /\ IsPrefix(dbStims, dbStims')
        /\ (mainPc = "upsert" /\ mainPc' = "commit") =>
               /\ session.wells \subseteq session'.wells
               /\ IsPrefix(session.stims, session'.stims)
        /\ ReprocessedState' ]_vars

\* C14 witness: the same document, with a file number and two stimulation
\* records, was committed twice: one wells row, four stimulations rows.
C14_Witness ==
    /\ mainPc = "done"
    /\ Len(mainDocs) = 2
    /\ mainDocs[1] = mainDocs[2]
    /\ TruthyStr(mainDocs[1].well_file_no)
    /\ mainDocs[1].stims = 2
    /\ mainOutcome = <<"ok", "ok">>
    /\ Cardinality(dbWells) = 1
    /\ Len(dbStims) = 4
    /\ \A i \in DOMAIN dbStims : \A w \in dbWells : dbStims[i].well_id = w.id

(***************************************************************************)
(* value_after_label properties                                            *)
(***************************************************************************)
\* The positions (0-based) of the lines whose case-folded content is the label
LabelPositions(lines, label) ==
    {i \in 0..(Len(lines) - 1) : LowerOf(lines[i + 1]) = LowerOf(label)}

\* The first of the at most 5 lines after position i that is not a known label
\* string; <<>> when each of them is one or there is none
FirstNonLabelAfter(lines, i) ==
    LET window == {j \in (i + 1)..(Min(i + 6, Len(lines)) - 1) :
                       lines[j + 1] \notin STOP_WORDS}
    IN  IF window = {} THEN <<>>
        ELSE <<lines[(CHOOSE j \in window : \A k \in window : j <= k) + 1]>>

\* C15: value_after_label finds a line whose case-folded content equals the
\* label and returns the first of the following lines, within a window of at
\* most 5 lines, that is not a known label string; it returns no value only when
\* every line of the window is a known label or the window is empty.
C15_FirstNonLabelInWindow ==
    formPc = "done" =>
        IF LabelPositions(formLines, formLabel) = {}
        THEN formOut = <<>>
        ELSE \E i \in LabelPositions(formLines, formLabel) :
                 formOut = FirstNonLabelAfter(formLines, i)

(***************************************************************************)
(* extract_from_pdf: the keys of the accumulator                           *)
(***************************************************************************)
\* C16: in every state of extract_from_pdf the keys set in the well accumulator
\* are among well_file_no, well_name, operator, address, city, state, zip and
\* county; latitude_raw, longitude_raw and api are never set, so the
\* completeness test of the code is false after the text-layer pass and after
\* every OCR page: the early return and the early break are never taken, the OCR
\* stage is always reached and every page of the OCR result map is merged.
C16_CoordsNeverSet ==
    /\ {k \in WellKeys : well[k] # <<>>} \subseteq
           {"well_file_no", "well_name", "operator", "address", "city", "state",
            "zip", "county"}
    /\ well["latitude_raw"] = <<>> /\ well["longitude_raw"] = <<>> /\ well["api"] = <<>>
    /\ ~Complete(well, stim_blocks)
    /\ (exPc \in {"ocr", "merge", "done"}) => ocrPc # "idle"
    /\ exPc = "done" => \A p \in DOMAIN ocrOut : <<"ocr", p>> \in Range(exLog)

\* C16 witness: a finished document with an identity, a name, a location field
\* and a stimulation record, whose OCR result of two or more pages was merged
\* to the last page.
C16_Witness ==
    /\ exPc = "done"
    /\ CompletePredicate(well, stim_blocks)
    /\ Cardinality(DOMAIN ocrOut) >= 2
    /\ {e[2] : e \in Range(OcrLog)} = DOMAIN ocrOut
    /\ \E i \in DOMAIN OcrLog :
          /\ i < Len(OcrLog)
          /\ parse_stimulation_text(LogText(OcrLog[i])) # <<>>

====
